---- MODULE Spec2Model ----
(***************************************************************************)
(* EODBot: the scheduled jobs of scheduler.py (prompt, reminder, final     *)
(* reminder, management rollup) over the eod_reports ledger written by     *)
(* FirebaseClient.save_eod_report.                                         *)
(*                                                                         *)
(* Time is counted in hours since 2024-01-01 00:00 UTC.  A date is the     *)
(* number of days since 2024-01-01, a Monday, so that date.weekday() is    *)
(* the date modulo 7 (Monday = 0).  A display name is modelled by its rank *)
(* in Python's string order.                                               *)
(***************************************************************************)
EXTENDS Integers, Sequences, FiniteSets, TLC

VARIABLES now, ticks, firebase_client, hashSeed, eod_reports, users, lastRun, prevRun,
          views, tasks, running, walk

vars == <<now, ticks, firebase_client, hashSeed, eod_reports, users, lastRun, prevRun,
          views, tasks, running, walk>>

(* ------------------------------ bounds --------------------------------- *)

\* number of clock steps taken after the start of a behaviour
MaxTicks == 3

\* number of documents the eod_reports collection may hold
MaxReports == 2

(* ----------------------------- calendar -------------------------------- *)

HoursPerDay == 24

\* America/New_York is UTC-4 on the modelled dates (April and May 2024)
NYOffset == 4

\* the clock advances from one day's rollup time to the next day's
TickHours == HoursPerDay

\* Tuesday 2024-04-30 (the day before the 2024-05-01 holiday) and
\* Saturday 2024-05-04
StartDays == {120, 124}

HOLIDAYS == {0, 107, 108, 121, 163, 237, 359, 364}

ManagementChannelIsTargetUser == "U083K838X8V"

MANAGEMENT_CHANNEL == "C08MD128A80"

INTERNAL_TEAM_IDS ==
    {"U083K838X8V", "U0890AG4ZEU", "U0837HZE98X", "U08CSFHTJ2X", "USLACKBOT"}

\* timedelta(days=30): the window of past submissions the rollup loads
LookbackDays == 30

\* `consecutive_days >= 30`
StreakCap == 30

weekday(d) == d % 7

IsWeekendSundayOnly(today) == weekday(today) >= 6

\* `now.weekday() >= 5`, the test every scheduled job starts with
IsWeekend(today) == weekday(today) >= 5

\* timestamp.astimezone(ZoneInfo("America/New_York")).date()
NYDate(ts) == (ts - NYOffset) \div HoursPerDay

\* datetime.combine(d, datetime.min.time()) in New York, converted to UTC
DayStartUtc(d) == d * HoursPerDay + NYOffset

DayEndUtcIsNextMidnight(d) == DayStartUtc(d) + HoursPerDay

\* datetime.combine(d, datetime.max.time()) in New York, converted to UTC:
\* the last representable instant of the local day
DayEndUtc(d) == DayStartUtc(d) + HoursPerDay - 1

\* 20:00 New York time on date d, the time the rollup is scheduled at
StartNow(d) == DayStartUtc(d) + 20

(* ------------------------- the Slack workspace ------------------------- *)

\* the members returned by users_list, in the order Slack returns them
Members ==
    << [id |-> "U1", is_bot |-> FALSE, deleted |-> FALSE, real_name |-> 2],
       [id |-> "U083K838X8V", is_bot |-> FALSE, deleted |-> FALSE, real_name |-> 3],
       [id |-> "U2", is_bot |-> FALSE, deleted |-> FALSE, real_name |-> 1],
       [id |-> "UBOT", is_bot |-> TRUE, deleted |-> FALSE, real_name |-> 4],
       [id |-> "UGONE", is_bot |-> FALSE, deleted |-> TRUE, real_name |-> 5],
       [id |-> "U3", is_bot |-> FALSE, deleted |-> FALSE, real_name |-> 2] >>

UserIds == {Members[i].id : i \in DOMAIN Members}

\* The string hashes of one Python process: a multiplier that permutes the
\* members.  A set of user ids is iterated in the order of these hashes.
Seeds == {1, 6}

MemberIndex(user_id) == CHOOSE i \in DOMAIN Members : Members[i].id = user_id

HashRank(user_id) == (MemberIndex(user_id) * hashSeed) % (Len(Members) + 1)

\* slack_bot.client.users_info(user=user_id)['user']
users_info(user_id) == CHOOSE m \in {Members[i] : i \in DOMAIN Members} : m.id = user_id

(* ------------------------------ messages ------------------------------- *)

DirectMessage(user_id, kind) ==
    [to |-> user_id, kind |-> kind, entries |-> <<>>, missing |-> 0, expected |-> 0]

NoRun ==
    [job |-> "none", today |-> 0, status |-> "idle", readRoster |-> FALSE,
     readLedger |-> FALSE, ledgerError |-> FALSE, infoFail |-> {},
     submitted |-> {}, expected |-> {}, sent |-> <<>>]

\* a run that returned before sending anything
EarlyExit(job, today, status, readRoster, readLedger, ledgerError) ==
    [job |-> job, today |-> today, status |-> status, readRoster |-> readRoster,
     readLedger |-> readLedger, ledgerError |-> ledgerError, infoFail |-> {},
     submitted |-> {}, expected |-> {}, sent |-> <<>>]

\* the two job runs that may be in progress at the same time
RunIds == {1, 2}

\* no job run in progress
IdleRun ==
    [job |-> "none", pc |-> "idle", today |-> 0, ledger |-> {},
     valid_users |-> {}, submitted |-> {}]

NoRuns == [i \in RunIds |-> IdleRun]

\* the streak loop not started
NoWalk ==
    [pc |-> "idle", today |-> 0, user_submissions |-> {}, check_date |-> 0,
     consecutive_days |-> 0, tested |-> <<>>]

(* ------------------------------ the ledger ----------------------------- *)

TodayDocsOfSingleReports(today) ==
    {r \in eod_reports :
        /\ r.timestamp >= DayStartUtc(today) /\ r.timestamp <= DayEndUtc(today)
        /\ \A x \in eod_reports :
              (x.user_id = r.user_id /\ x.timestamp >= DayStartUtc(today)
                                     /\ x.timestamp <= DayEndUtc(today)) => x = r}

\* .where('timestamp', '>=', start_utc).where('timestamp', '<=', end_utc)
TodayDocs(today) ==
    {r \in eod_reports : r.timestamp >= DayStartUtc(today) /\ r.timestamp <= DayEndUtc(today)}

Init ==
    /\ \E d \in StartDays : now = StartNow(d)
    /\ ticks = 0
    /\ firebase_client \in BOOLEAN
    /\ hashSeed \in Seeds
    /\ eod_reports = {}
    /\ users = {}
    /\ lastRun = NoRun
    /\ prevRun = NoRun
    /\ views = {}
    /\ tasks = {}
    /\ running = NoRuns
    /\ walk = NoWalk

\* the wall clock moves on
Tick ==
    /\ ticks < MaxTicks
    /\ now' = now + TickHours
    /\ ticks' = ticks + 1
    /\ lastRun' = NoRun
    /\ prevRun' = NoRun
    /\ UNCHANGED <<firebase_client, hashSeed, eod_reports, users>>
    /\ UNCHANGED <<views, tasks, running, walk>>

\* FirebaseClient._ensure_user_exists
EnsureUserExists(slack_id, created_at) ==
    IF \E x \in users : x.slack_id = slack_id
    THEN users
    ELSE users \cup {[slack_id |-> slack_id, status |-> "active", created_at |-> created_at]}

\* FirebaseClient.save_eod_report, called by process_submission for a new report
save_eod_report(user_id) ==
    /\ Cardinality(eod_reports) < MaxReports
    /\ \E fieldsOk \in BOOLEAN :
          IF firebase_client /\ fieldsOk
          THEN /\ eod_reports' = eod_reports \cup
                     {[id |-> Cardinality(eod_reports) + 1, user_id |-> user_id,
                       timestamp |-> now, date |-> now \div HoursPerDay]}
               /\ users' = EnsureUserExists(user_id, now)
          ELSE UNCHANGED <<eod_reports, users>>
    /\ lastRun' = NoRun
    /\ prevRun' = NoRun
    /\ UNCHANGED <<now, ticks, firebase_client, hashSeed>>
    /\ UNCHANGED <<views, tasks, running, walk>>

(* --------------------- prompt, reminder, last call --------------------- *)

FirebaseCheckSkipped == FALSE

\* if not firebase_client: the first test of each of the four jobs
FirebaseNotInitialized == ~firebase_client

RecipientsWithBots(submitted_users) ==
    SelectSeq(Members, LAMBDA m : /\ m.id \notin INTERNAL_TEAM_IDS
                                  /\ ~m.deleted
                                  /\ m.id \notin submitted_users)

\* the loop over all_users: internal team, bots, deactivated accounts and
\* users in submitted_users are skipped, everybody else is sent the message
Recipients(submitted_users) ==
    SelectSeq(Members, LAMBDA m : /\ m.id \notin INTERNAL_TEAM_IDS
                                  /\ ~m.is_bot
                                  /\ ~m.deleted
                                  /\ m.id \notin submitted_users)

\* the messages of the loop; the crashAt-th send raises an error other than
\* SlackApiError, which ends the run in the outer handler (0: no send raises)
SendLoop(recipients, kind, crashAt) ==
    LET n == IF crashAt = 0 \/ crashAt > Len(recipients) THEN Len(recipients) ELSE crashAt - 1
    IN  [i \in 1..n |-> DirectMessage(recipients[i].id, kind)]

\* The body shared by send_eod_prompts, send_reminders and send_final_reminders.
\* ledgerFirst: the job queries today's submissions before it lists the users.
\* usersListFails: users_list raises; queryFails: the ledger query raises;
\* seen: the users whose documents were streamed before the query failed.
ReminderRun(job, kind, ledgerFirst, usersListFails, queryFails, seen, crashAt) ==
    LET today == NYDate(now)
        recipients == Recipients(seen)
        sent == SendLoop(recipients, kind, crashAt)
    IN  IF FirebaseNotInitialized
        THEN EarlyExit(job, today, "no_firebase", FALSE, FALSE, FALSE)
        ELSE IF IsWeekend(today)
        THEN EarlyExit(job, today, "weekend", FALSE, FALSE, FALSE)
        ELSE IF usersListFails
        THEN EarlyExit(job, today, "roster_error", TRUE, ledgerFirst, ledgerFirst /\ queryFails)
        ELSE [job |-> job, today |-> today,
              status |-> IF Len(sent) = Len(recipients) THEN "done" ELSE "error",
              readRoster |-> TRUE, readLedger |-> TRUE, ledgerError |-> queryFails,
              infoFail |-> {}, submitted |-> seen, expected |-> {}, sent |-> sent]

ReminderJob(job, kind, ledgerFirst) ==
    /\ \E usersListFails \in BOOLEAN, queryFails \in BOOLEAN :
          LET submitted_users == {r.user_id : r \in TodayDocs(NYDate(now))}
          IN  \E seen \in SUBSET submitted_users, crashAt \in 0..Len(Recipients({})) :
                 /\ ~queryFails => seen = submitted_users
                 /\ lastRun' = ReminderRun(job, kind, ledgerFirst, usersListFails, queryFails, seen, crashAt)
    /\ prevRun' = lastRun
    /\ UNCHANGED <<now, ticks, firebase_client, hashSeed, eod_reports, users>>
    /\ UNCHANGED <<views, tasks, running, walk>>

send_eod_prompts == ReminderJob("send_eod_prompts", "prompt", TRUE)

send_reminders == ReminderJob("send_reminders", "reminder", FALSE)

send_final_reminders == ReminderJob("send_final_reminders", "last_call", FALSE)

(* ------------------------- management rollup --------------------------- *)

\* the while loop of send_daily_non_submission_report for one missing user
RECURSIVE StreakLoop(_, _, _, _)
StreakLoop(check_date, consecutive_days, user_submissions, thirty_days_ago) ==
    IF weekday(check_date) >= 5 \/ check_date \in HOLIDAYS
    THEN StreakLoop(check_date - 1, consecutive_days, user_submissions, thirty_days_ago)
    ELSE IF check_date \in user_submissions
    THEN consecutive_days
    ELSE IF consecutive_days + 1 >= StreakCap \/ check_date - 1 < thirty_days_ago
    THEN consecutive_days + 1
    ELSE StreakLoop(check_date - 1, consecutive_days + 1, user_submissions, thirty_days_ago)

\* past_submissions[user_id]: the New York dates of the user's reports of
\* the past 30 days
PastSubmissions(user_id, today) ==
    IF user_id \in INTERNAL_TEAM_IDS
    THEN {}
    ELSE {NYDate(r.timestamp) :
            r \in {x \in eod_reports : /\ x.timestamp >= DayStartUtc(today - LookbackDays)
                                       /\ x.user_id = user_id}}

\* consecutive_missed_days[user_id]
ConsecutiveMissedDays(user_id, today) ==
    StreakLoop(today - 1, 1, PastSubmissions(user_id, today), today - LookbackDays)

\* list.sort(key=lambda x: x[1]): a stable sort by name
RECURSIVE InsertByName(_, _)
InsertByName(x, sorted) ==
    IF sorted = <<>> THEN <<x>>
    ELSE IF Head(sorted).user_name <= x.user_name
    THEN <<Head(sorted)>> \o InsertByName(x, Tail(sorted))
    ELSE <<x>> \o sorted

RECURSIVE SortInto(_, _)
SortInto(list, sorted) ==
    IF list = <<>> THEN sorted
    ELSE SortInto(Tail(list), InsertByName(Head(list), sorted))

SortByNameKeepsOrder(list) == list

SortByName(list) == SortInto(list, <<>>)

\* the order in which the process iterates over a set of user ids
RECURSIVE SetOrder(_)
SetOrder(S) ==
    IF S = {} THEN <<>>
    ELSE LET first == CHOOSE u \in S : \A v \in S : HashRank(u) <= HashRank(v)
         IN  <<first>> \o SetOrder(S \ {first})

AllUsersNotYetReported ==
    ({r.user_id : r \in eod_reports} \ INTERNAL_TEAM_IDS)
        \ {u \in UserIds : \E i \in DOMAIN lastRun.sent :
                               \E j \in DOMAIN lastRun.sent[i].entries :
                                  lastRun.sent[i].entries[j].user_id = u}

\* all_users: the user ids of all documents of eod_reports, without the
\* internal team
AllUsers == {r.user_id : r \in eod_reports} \ INTERNAL_TEAM_IDS

ValidUsersLookupAborts(all_users, infoFail) ==
    IF infoFail # {}
    THEN {}
    ELSE {u \in all_users : /\ u # "USLACKBOT"
                            /\ ~users_info(u).is_bot
                            /\ ~users_info(u).deleted
                            /\ u \notin INTERNAL_TEAM_IDS}

\* valid_users: the users of the ledger that are not internal, not Slackbot,
\* whose users_info call succeeds and names neither a bot nor a deactivated
\* account
ValidUsers(all_users, infoFail) ==
    {u \in all_users : /\ u # "USLACKBOT"
                       /\ u \notin infoFail
                       /\ ~users_info(u).is_bot
                       /\ ~users_info(u).deleted
                       /\ u \notin INTERNAL_TEAM_IDS}

ManagementMessageCountsExpected(missing_users_with_names, today, valid_users) ==
    [to |-> MANAGEMENT_CHANNEL,
     kind |-> IF missing_users_with_names # <<>> THEN "missing_submissions" ELSE "all_submitted",
     entries |-> [i \in 1..Len(missing_users_with_names) |->
                    [user_id |-> missing_users_with_names[i].user_id,
                     user_name |-> missing_users_with_names[i].user_name,
                     consecutive_days |->
                        ConsecutiveMissedDays(missing_users_with_names[i].user_id, today)]],
     missing |-> IF missing_users_with_names # <<>> THEN Cardinality(valid_users) ELSE 0,
     expected |-> IF missing_users_with_names # <<>> THEN Cardinality(valid_users) ELSE 0]

\* mgmt_message
ManagementMessage(missing_users_with_names, today, valid_users) ==
    IF missing_users_with_names # <<>>
    THEN [to |-> MANAGEMENT_CHANNEL, kind |-> "missing_submissions",
          entries |-> [i \in 1..Len(missing_users_with_names) |->
                         [user_id |-> missing_users_with_names[i].user_id,
                          user_name |-> missing_users_with_names[i].user_name,
                          consecutive_days |->
                             ConsecutiveMissedDays(missing_users_with_names[i].user_id, today)]],
          missing |-> Len(missing_users_with_names),
          expected |-> Cardinality(valid_users)]
    ELSE [to |-> MANAGEMENT_CHANNEL, kind |-> "all_submitted", entries |-> <<>>,
          missing |-> 0, expected |-> 0]

\* readsFail: one of the three ledger reads raises; infoFail: the users whose
\* users_info call raises; sendFails: the send raises an error other than
\* SlackApiError
RollupRun(readsFail, infoFail, sendFails) ==
    LET job == "send_daily_non_submission_report"
        today == NYDate(now)
        all_users == AllUsers
        valid_users == ValidUsers(all_users, infoFail)
        submitted_today == {r.user_id : r \in TodayDocs(today)}
        missing_users == SetOrder(valid_users \ submitted_today)
        missing_users_with_names ==
            SortByName([i \in 1..Len(missing_users) |->
                          [user_id |-> missing_users[i],
                           user_name |-> users_info(missing_users[i]).real_name]])
    IN  IF FirebaseNotInitialized
        THEN EarlyExit(job, today, "no_firebase", FALSE, FALSE, FALSE)
        ELSE IF IsWeekend(today)
        THEN EarlyExit(job, today, "weekend", FALSE, FALSE, FALSE)
        ELSE IF readsFail
        THEN EarlyExit(job, today, "error", FALSE, TRUE, TRUE)
        ELSE [job |-> job, today |-> today,
              status |-> IF sendFails THEN "error" ELSE "done",
              readRoster |-> TRUE, readLedger |-> TRUE, ledgerError |-> FALSE,
              infoFail |-> infoFail, submitted |-> submitted_today, expected |-> valid_users,
              sent |-> IF sendFails
                       THEN <<>>
                       ELSE <<ManagementMessage(missing_users_with_names, today, valid_users)>>]

send_daily_non_submission_report ==
    /\ \E readsFail \in BOOLEAN, sendFails \in BOOLEAN :
       \E infoFail \in SUBSET AllUsers :
          lastRun' = RollupRun(readsFail, infoFail, sendFails)
    /\ prevRun' = lastRun
    /\ UNCHANGED <<now, ticks, firebase_client, hashSeed, eod_reports, users>>
    /\ UNCHANGED <<views, tasks, running, walk>>

\* The scheduler starts a job when the outcome of the previous one has been
\* cleared.  A job neither reads lastRun nor changes anything else, so this
\* removes no reachable state.
Scheduled(job) == lastRun = NoRun /\ job

Next ==
    \/ Tick
    \/ \E u \in UserIds : save_eod_report(u)
    \/ Scheduled(send_eod_prompts)
    \/ Scheduled(send_reminders)
    \/ Scheduled(send_final_reminders)
    \/ Scheduled(send_daily_non_submission_report)

Spec == Init /\ [][Next]_vars

\* A ledger with history: one user sent a single report HistoryAge days before
\* the first day of the run and has been silent since.
HistoryAge == 40

InitHistory ==
    /\ now = StartNow(120)
    /\ ticks = 0
    /\ firebase_client = TRUE
    /\ hashSeed \in Seeds
    /\ eod_reports = {[id |-> 1, user_id |-> "U1",
                       timestamp |-> StartNow(120 - HistoryAge),
                       date |-> StartNow(120 - HistoryAge) \div HoursPerDay]}
    /\ users = {[slack_id |-> "U1", status |-> "active",
                 created_at |-> StartNow(120 - HistoryAge)]}
    /\ lastRun = NoRun
    /\ prevRun = NoRun
    /\ views = {}
    /\ tasks = {}
    /\ running = NoRuns
    /\ walk = NoWalk

SpecHistory == InitHistory /\ [][Next]_vars

\* The rollup is run a second time right after a run, before the clock or
\* the ledger has changed (a retried or doubly triggered job).
InitRerun ==
    /\ now = StartNow(120)
    /\ ticks = 0
    /\ firebase_client = TRUE
    /\ hashSeed \in Seeds
    /\ eod_reports = {}
    /\ users = {}
    /\ lastRun = NoRun
    /\ prevRun = NoRun
    /\ views = {}
    /\ tasks = {}
    /\ running = NoRuns
    /\ walk = NoWalk

RunAgain ==
    /\ lastRun.job = "send_daily_non_submission_report"
    /\ prevRun = NoRun
    /\ send_daily_non_submission_report

NextRerun ==
    \/ Tick
    \/ \E u \in UserIds : save_eod_report(u)
    \/ Scheduled(send_daily_non_submission_report)
    \/ RunAgain

SpecRerun == InitRerun /\ [][NextRerun]_vars

\* The clock seen instant by instant around a local midnight: it starts two
\* instants before Thursday 2024-05-02 begins in New York.
InitInstants ==
    /\ now = DayStartUtc(122) - 2
    /\ ticks = 0
    /\ firebase_client = TRUE
    /\ hashSeed \in Seeds
    /\ eod_reports = {}
    /\ users = {}
    /\ lastRun = NoRun
    /\ prevRun = NoRun
    /\ views = {}
    /\ tasks = {}
    /\ running = NoRuns
    /\ walk = NoWalk

\* the wall clock moves to the next instant
TickInstant ==
    /\ ticks < MaxTicks
    /\ now' = now + 1
    /\ ticks' = ticks + 1
    /\ lastRun' = NoRun
    /\ prevRun' = NoRun
    /\ UNCHANGED <<firebase_client, hashSeed, eod_reports, users>>
    /\ UNCHANGED <<views, tasks, running, walk>>

\* the users who report around that midnight
NightUsers == {"U1", "U2"}

\* save_eod_report clears lastRun, so storing reports only between runs
\* removes no reachable state.
NextInstants ==
    \/ TickInstant
    \/ \E u \in NightUsers : Scheduled(save_eod_report(u))
    \/ Scheduled(send_eod_prompts)
    \/ Scheduled(send_reminders)
    \/ Scheduled(send_final_reminders)
    \/ Scheduled(send_daily_non_submission_report)

SpecInstants == InitInstants /\ [][NextInstants]_vars

(* ---------------- job runs step by step, side by side ----------------- *)

\* The scheduler runs each job on a thread of its pool, so a run may still be
\* in progress when the next one starts, and reports are stored while runs
\* are in progress.  A run is a sequence of steps, one for each read of the
\* ledger; all it keeps between the steps are its local variables.
InitConcurrent ==
    /\ now = DayStartUtc(122) - 2
    /\ ticks = 0
    /\ firebase_client = TRUE
    /\ hashSeed = 1
    /\ eod_reports = {}
    /\ users = {}
    /\ lastRun = NoRun
    /\ prevRun = NoRun
    /\ views = {}
    /\ tasks = {}
    /\ running = NoRuns
    /\ walk = NoWalk

\* lastRun is the outcome of the run that ended with the step just taken, if
\* one did.  A run takes the first thread of the pool that is free.
Free(i) == running[i].pc = "idle" /\ \A k \in RunIds : k < i => running[k].pc # "idle"

\* the message of each of the three jobs that write to the users
JobKind ==
    [send_eod_prompts |-> "prompt", send_reminders |-> "reminder",
     send_final_reminders |-> "last_call"]

\* the local variables of a run that has begun; ledger is not one of them: it
\* records what eod_reports held when the run began
Begun(job, pc, valid_users) ==
    [job |-> job, pc |-> pc, today |-> NYDate(now), ledger |-> eod_reports,
     valid_users |-> valid_users, submitted |-> {}]

\* send_reminders and its two siblings up to users_list: the client and
\* weekend tests, now, start and end
ReminderBegin(i, job) ==
    /\ Free(i)
    /\ IF FirebaseNotInitialized \/ IsWeekend(NYDate(now))
       THEN /\ lastRun' = ReminderRun(job, JobKind[job], FALSE, FALSE, FALSE, {}, 0)
            /\ UNCHANGED running
       ELSE /\ running' = [running EXCEPT ![i] = Begun(job, "query", {})]
            /\ lastRun' = NoRun
    /\ UNCHANGED <<now, ticks, firebase_client, hashSeed, eod_reports, users>>
    /\ UNCHANGED <<prevRun, views, tasks, walk>>

ReminderQueryWritesMarkers(i) ==
    /\ running[i].pc = "query"
    /\ LET run == running[i]
           submitted_users == {r.user_id : r \in TodayDocs(run.today)}
           recipients == Recipients(submitted_users)
       IN  /\ lastRun' = [job |-> run.job, today |-> run.today, status |-> "done",
                          readRoster |-> TRUE, readLedger |-> TRUE, ledgerError |-> FALSE,
                          infoFail |-> {}, submitted |-> submitted_users, expected |-> {},
                          sent |-> SendLoop(recipients, JobKind[run.job], 0)]
           /\ users' = users \cup {[slack_id |-> recipients[k].id, status |-> "reminded",
                                     created_at |-> now] : k \in DOMAIN recipients}
    /\ running' = [running EXCEPT ![i] = IdleRun]
    /\ UNCHANGED <<now, ticks, firebase_client, hashSeed, eod_reports>>
    /\ UNCHANGED <<prevRun, views, tasks, walk>>

\* the query for today's submissions and the loop that sends the messages
ReminderQuery(i) ==
    /\ running[i].pc = "query"
    /\ LET run == running[i]
           submitted_users == {r.user_id : r \in TodayDocs(run.today)}
           recipients == Recipients(submitted_users)
       IN  lastRun' = [job |-> run.job, today |-> run.today, status |-> "done",
                       readRoster |-> TRUE, readLedger |-> TRUE, ledgerError |-> FALSE,
                       infoFail |-> {}, submitted |-> submitted_users, expected |-> {},
                       sent |-> SendLoop(recipients, JobKind[run.job], 0)]
    /\ running' = [running EXCEPT ![i] = IdleRun]
    /\ UNCHANGED <<now, ticks, firebase_client, hashSeed, eod_reports, users>>
    /\ UNCHANGED <<prevRun, views, tasks, walk>>

\* send_daily_non_submission_report up to valid_users: the client and weekend
\* tests, today, the read of all documents and the users_info calls
RollupBegin(i) ==
    /\ Free(i)
    /\ IF FirebaseNotInitialized \/ IsWeekend(NYDate(now))
       THEN /\ lastRun' = RollupRun(FALSE, {}, FALSE)
            /\ UNCHANGED running
       ELSE /\ running' = [running EXCEPT ![i] =
                              Begun("send_daily_non_submission_report", "today_docs",
                                    ValidUsers(AllUsers, {}))]
            /\ lastRun' = NoRun
    /\ UNCHANGED <<now, ticks, firebase_client, hashSeed, eod_reports, users>>
    /\ UNCHANGED <<prevRun, views, tasks, walk>>

\* the query for today's submissions: submitted_today
RollupReadToday(i) ==
    /\ running[i].pc = "today_docs"
    /\ running' = [running EXCEPT ![i].pc = "past_docs",
                                  ![i].submitted = {r.user_id : r \in TodayDocs(running[i].today)}]
    /\ lastRun' = NoRun
    /\ UNCHANGED <<now, ticks, firebase_client, hashSeed, eod_reports, users>>
    /\ UNCHANGED <<prevRun, views, tasks, walk>>

\* missing_users_with_names of a run
MissingUsersWithNames(valid_users, submitted_today) ==
    LET missing_users == SetOrder(valid_users \ submitted_today)
    IN  SortByName([k \in 1..Len(missing_users) |->
                      [user_id |-> missing_users[k],
                       user_name |-> users_info(missing_users[k]).real_name]])

RollupMessageCountsAgain(run) ==
    [ManagementMessage(MissingUsersWithNames(run.valid_users, run.submitted),
                       run.today, run.valid_users)
        EXCEPT !.missing = Cardinality(run.valid_users
                                         \ {r.user_id : r \in TodayDocs(run.today)})]

\* mgmt_message of a run: built from valid_users and submitted_today as the
\* run read them
RollupMessage(run) ==
    ManagementMessage(MissingUsersWithNames(run.valid_users, run.submitted),
                      run.today, run.valid_users)

\* the query for the past 30 days, the streaks, the message and its send
RollupFinish(i) ==
    /\ running[i].pc = "past_docs"
    /\ LET run == running[i]
       IN  lastRun' = [job |-> run.job, today |-> run.today, status |-> "done",
                       readRoster |-> TRUE, readLedger |-> TRUE, ledgerError |-> FALSE,
                       infoFail |-> {}, submitted |-> run.submitted,
                       expected |-> run.valid_users, sent |-> <<RollupMessage(run)>>]
    /\ running' = [running EXCEPT ![i] = IdleRun]
    /\ UNCHANGED <<now, ticks, firebase_client, hashSeed, eod_reports, users>>
    /\ UNCHANGED <<prevRun, views, tasks, walk>>

NextConcurrent ==
    \/ TickInstant
    \/ \E u \in NightUsers : save_eod_report(u)
    \/ \E i \in RunIds : \E job \in DOMAIN JobKind : ReminderBegin(i, job)
    \/ \E i \in RunIds : ReminderQuery(i)
    \/ \E i \in RunIds : RollupBegin(i)
    \/ \E i \in RunIds : RollupReadToday(i)
    \/ \E i \in RunIds : RollupFinish(i)

SpecConcurrent == InitConcurrent /\ [][NextConcurrent]_vars

(* ------------------- /eod, the modal and its submission ---------------- *)

\* the number of modals opened in a behaviour
MaxModals == 2

\* the user who talks to the bot
WebUsers == {"U1"}

\* FirebaseClient.get_user_report_for_date: the reports of the user whose
\* timestamp lies in the local day; the handlers take the first one
UserReportsForDate(user_id, date) ==
    {r \in eod_reports : /\ r.user_id = user_id
                         /\ DayStartUtc(date) <= r.timestamp
                         /\ r.timestamp <= DayEndUtc(date)}

\* the modal with this id is open on the user's screen
View(user_id, is_edit, report_id) ==
    [id |-> Cardinality(views) + Cardinality(tasks) + 1, user_id |-> user_id,
     is_edit |-> is_edit, report_id |-> report_id]

\* one instant before Friday 2024-05-03 begins in New York
InitWeb ==
    /\ now = DayStartUtc(123) - 1
    /\ ticks = 0
    /\ firebase_client = TRUE
    /\ hashSeed = 1
    /\ eod_reports = {}
    /\ users = {}
    /\ lastRun = NoRun
    /\ prevRun = NoRun
    /\ views = {}
    /\ tasks = {}
    /\ running = NoRuns
    /\ walk = NoWalk

\* slack_commands for /eod.  lookupFails: get_user_report_for_date catches an
\* error of the query and returns None.
slack_commands(user_id) ==
    /\ Cardinality(views) + Cardinality(tasks) < MaxModals
    /\ \E lookupFails \in BOOLEAN :
          LET existing_report ==
                 IF lookupFails THEN {} ELSE UserReportsForDate(user_id, NYDate(now))
          IN  IF firebase_client /\ existing_report = {}
              THEN views' = views \cup {View(user_id, FALSE, 0)}
              ELSE UNCHANGED views
    /\ UNCHANGED <<now, ticks, firebase_client, hashSeed, eod_reports, users,
                   lastRun, prevRun, tasks, running, walk>>

\* slack_interactivity, block_actions with action_id edit_report
edit_report(user_id) ==
    /\ Cardinality(views) + Cardinality(tasks) < MaxModals
    /\ \E report \in UserReportsForDate(user_id, NYDate(now)) :
          views' = views \cup {View(user_id, TRUE, report.id)}
    /\ UNCHANGED <<now, ticks, firebase_client, hashSeed, eod_reports, users,
                   lastRun, prevRun, tasks, running, walk>>

\* slack_interactivity, view_submission: the modal closes and the thread
\* that runs process_submission is started
view_submission(view) ==
    /\ views' = views \ {view}
    /\ tasks' = tasks \cup {[id |-> view.id, user_id |-> view.user_id,
                              is_edit |-> view.is_edit, report_id |-> view.report_id,
                              pc |-> "save", saved |-> FALSE, sent |-> <<>>]}
    /\ UNCHANGED <<now, ticks, firebase_client, hashSeed, eod_reports, users,
                   lastRun, prevRun, running, walk>>

\* the task after one of its steps
Stepped(task, after) == (tasks \ {task}) \cup {after}

\* the handler of process_submission: the error message to the user
Failed(task) ==
    [task EXCEPT !.pc = "done",
                 !.sent = Append(@, [to |-> task.user_id, kind |-> "error"])]

SaveStepIgnoresFailure(task) ==
    /\ task.pc = "save"
    /\ tasks' = Stepped(task, [task EXCEPT !.pc = "post"])
    /\ UNCHANGED <<eod_reports, users>>
    /\ UNCHANGED <<now, ticks, firebase_client, hashSeed, lastRun, prevRun,
                   views, running, walk>>

\* process_submission, first step: update_eod_report for an edit,
\* save_eod_report otherwise.  writeFails: the call raises.
SaveStep(task) ==
    /\ task.pc = "save"
    /\ \E writeFails \in BOOLEAN :
          IF writeFails \/ ~firebase_client
          THEN /\ tasks' = Stepped(task, Failed(task))
               /\ UNCHANGED <<eod_reports, users>>
          ELSE IF task.is_edit /\ task.report_id # 0
          THEN /\ eod_reports' =
                     {IF r.id = task.report_id
                      THEN [r EXCEPT !.timestamp = now, !.date = NYDate(now)]
                      ELSE r : r \in eod_reports}
               /\ tasks' = Stepped(task, [task EXCEPT !.pc = "post", !.saved = TRUE])
               /\ UNCHANGED users
          ELSE /\ eod_reports' = eod_reports \cup
                     {[id |-> Cardinality(eod_reports) + 1, user_id |-> task.user_id,
                       timestamp |-> now, date |-> now \div HoursPerDay]}
               /\ users' = EnsureUserExists(task.user_id, now)
               /\ tasks' = Stepped(task, [task EXCEPT !.pc = "post", !.saved = TRUE,
                                                       !.report_id = Cardinality(eod_reports) + 1])
    /\ UNCHANGED <<now, ticks, firebase_client, hashSeed, lastRun, prevRun,
                   views, running, walk>>

\* process_submission, second step: post_report_to_channel.  postFails: the
\* call raises an error other than SlackApiError.
PostStep(task) ==
    /\ task.pc = "post"
    /\ \E postFails \in BOOLEAN :
          tasks' = Stepped(task,
                     IF postFails THEN Failed(task)
                     ELSE [task EXCEPT !.pc = "confirm",
                             !.sent = Append(@, [to |-> "reports_channel", kind |-> "report"])])
    /\ UNCHANGED <<now, ticks, firebase_client, hashSeed, eod_reports, users,
                   lastRun, prevRun, views, running, walk>>

\* process_submission, third step: the confirmation to the user
ConfirmStep(task) ==
    /\ task.pc = "confirm"
    /\ tasks' = Stepped(task,
                   [task EXCEPT !.pc = "done",
                      !.sent = Append(@, [to |-> task.user_id, kind |-> "success"])])
    /\ UNCHANGED <<now, ticks, firebase_client, hashSeed, eod_reports, users,
                   lastRun, prevRun, views, running, walk>>

NextWeb ==
    \/ TickInstant
    \/ \E u \in WebUsers : slack_commands(u)
    \/ \E u \in WebUsers : edit_report(u)
    \/ \E view \in views : view_submission(view)
    \/ \E task \in tasks : SaveStep(task)
    \/ \E task \in tasks : PostStep(task)
    \/ \E task \in tasks : ConfirmStep(task)

SpecWeb == InitWeb /\ [][NextWeb]_vars

(* ------------------------ the dashboard's streak ----------------------- *)

\* the while loop of api_team_members
RECURSIVE DashboardLoop(_, _, _, _)
DashboardLoop(check_date, consecutive_days, past_submissions, thirty_days_ago) ==
    IF ~(consecutive_days > 0)
    THEN consecutive_days
    ELSE IF weekday(check_date) >= 5
    THEN DashboardLoop(check_date - 1, consecutive_days, past_submissions, thirty_days_ago)
    ELSE IF check_date \in past_submissions
    THEN consecutive_days
    ELSE IF consecutive_days + 1 >= StreakCap \/ check_date - 1 < thirty_days_ago
    THEN consecutive_days + 1
    ELSE DashboardLoop(check_date - 1, consecutive_days + 1, past_submissions, thirty_days_ago)

\* missed: the value api_team_members shows for the user on a weekday
DashboardMissed(user_id, today) ==
    LET past_submissions ==
            {NYDate(r.timestamp) :
               r \in {x \in eod_reports : /\ x.user_id = user_id
                                          /\ x.timestamp >= DayStartUtc(today - LookbackDays)}}
        submitted_on_reporting_day == {r.user_id : r \in TodayDocs(today)}
    IN  DashboardLoop(today - 1,
                      IF user_id \in submitted_on_reporting_day THEN 0 ELSE 1,
                      past_submissions, today - LookbackDays)

(* ---------------------- the streak loop, step by step ------------------ *)

\* The dates of today and the distances of the user's reports from today
\* that the loop is started with.  110 is the Saturday after the holidays of
\* 2024-04-17/18, 122 the Thursday after the holiday of 2024-05-01.
WalkTodays == {110, 120, 122, 124}

WalkOffsets == {1, 2, 3, 5, 30, 31}

\* check_date = today - timedelta(days=1); consecutive_days = 1
InitWalk ==
    /\ \E today \in WalkTodays, offsets \in SUBSET WalkOffsets :
          /\ now = StartNow(today)
          /\ walk = [pc |-> "loop", today |-> today,
                     user_submissions |-> {today - k : k \in offsets},
                     check_date |-> today - 1, consecutive_days |-> 1,
                     tested |-> <<>>]
    /\ ticks = 0
    /\ firebase_client = TRUE
    /\ hashSeed = 1
    /\ eod_reports = {}
    /\ users = {}
    /\ lastRun = NoRun
    /\ prevRun = NoRun
    /\ views = {}
    /\ tasks = {}
    /\ running = NoRuns

SkippedDateWeekendOnly(check_date) == weekday(check_date) >= 5

\* if check_date.weekday() >= 5 or check_date in HOLIDAYS
SkippedDate(check_date) == weekday(check_date) >= 5 \/ check_date \in HOLIDAYS

WalkSkipKeepsDate ==
    /\ walk.pc = "loop"
    /\ SkippedDate(walk.check_date)
    /\ UNCHANGED walk
    /\ UNCHANGED <<now, ticks, firebase_client, hashSeed, eod_reports, users,
                   lastRun, prevRun, views, tasks, running>>

\* the weekend and holiday branch: one day back, then continue
WalkSkip ==
    /\ walk.pc = "loop"
    /\ SkippedDate(walk.check_date)
    /\ walk' = [walk EXCEPT !.check_date = @ - 1]
    /\ UNCHANGED <<now, ticks, firebase_client, hashSeed, eod_reports, users,
                   lastRun, prevRun, views, tasks, running>>

\* check_date in user_submissions: break
WalkFound ==
    /\ walk.pc = "loop"
    /\ ~SkippedDate(walk.check_date)
    /\ walk.check_date \in walk.user_submissions
    /\ walk' = [walk EXCEPT !.pc = "done", !.tested = Append(@, walk.check_date)]
    /\ UNCHANGED <<now, ticks, firebase_client, hashSeed, eod_reports, users,
                   lastRun, prevRun, views, tasks, running>>

\* no submission on check_date: count it, one day back, break at the limits
WalkCount ==
    /\ walk.pc = "loop"
    /\ ~SkippedDate(walk.check_date)
    /\ walk.check_date \notin walk.user_submissions
    /\ walk' = [walk EXCEPT
                   !.consecutive_days = @ + 1,
                   !.check_date = @ - 1,
                   !.tested = Append(@, walk.check_date),
                   !.pc = IF \/ walk.consecutive_days + 1 >= StreakCap
                             \/ walk.check_date - 1 < walk.today - LookbackDays
                          THEN "done" ELSE "loop"]
    /\ UNCHANGED <<now, ticks, firebase_client, hashSeed, eod_reports, users,
                   lastRun, prevRun, views, tasks, running>>

NextWalk == WalkSkip \/ WalkFound \/ WalkCount

SpecWalk == InitWalk /\ [][NextWalk]_vars

\* the thread that runs the loop is never starved
SpecWalkFair == SpecWalk /\ WF_vars(NextWalk)

(* ------------------------------ properties ----------------------------- *)

ReminderJobs == {"send_eod_prompts", "send_reminders", "send_final_reminders"}

Jobs == ReminderJobs \cup {"send_daily_non_submission_report"}

RollupSent ==
    /\ lastRun.job = "send_daily_non_submission_report"
    /\ lastRun.sent # <<>>

\* isBusinessDay of the Calendar Service
IsBusinessDay(d) == weekday(d) < 5 /\ d \notin HOLIDAYS

\* previousBusinessDay of the Calendar Service
RECURSIVE PreviousBusinessDay(_)
PreviousBusinessDay(d) ==
    IF IsBusinessDay(d - 1) THEN d - 1 ELSE PreviousBusinessDay(d - 1)

\* the date the user was first observed: created_at of the users document
EnrollmentDate(user_id) ==
    NYDate((CHOOSE x \in users : x.slack_id = user_id).created_at)

\* getSubmissionDates(user.id, sinceDate)
SubmissionDates(user_id, sinceDate) ==
    {NYDate(r.timestamp) :
       r \in {x \in eod_reports : x.user_id = user_id /\ NYDate(x.timestamp) >= sinceDate}}

\* the walk of the Escalation Engine, step 3b
RECURSIVE EngineWalk(_, _, _, _)
EngineWalk(checkDate, count, enrollmentDate, dates) ==
    IF checkDate < enrollmentDate \/ count >= StreakCap THEN count
    ELSE IF checkDate \in dates THEN count
    ELSE EngineWalk(PreviousBusinessDay(checkDate), count + 1, enrollmentDate, dates)

EngineStreak(user_id, today) ==
    EngineWalk(PreviousBusinessDay(today), 1, EnrollmentDate(user_id),
               SubmissionDates(user_id, today - LookbackDays))

\* the business days from the user's enrollment date up to yesterday
BusinessDaysSinceEnrollment(user_id, today) ==
    Cardinality({d \in EnrollmentDate(user_id)..(today - 1) : IsBusinessDay(d)})

\* NotificationTier
Tier(consecutiveMissedDays) ==
    IF consecutiveMissedDays = 0 THEN "none"
    ELSE IF consecutiveMissedDays = 1 THEN "normal"
    ELSE IF consecutiveMissedDays = 2 THEN "warning"
    ELSE "escalated"

\* the users with a report in today's local-day window
SubmittedToday == {r.user_id : r \in TodayDocs(NYDate(now))}

\* C1: in a rollup run on a business day, every listed user's
\* consecutiveMissedDays is 1 plus the business days walked backward without a
\* submission, the walk stopping at a submission, before the enrollment date,
\* or at the cap of 30.
C1_StreakFollowsEngineWalk ==
    (RollupSent /\ IsBusinessDay(NYDate(now))) =>
        \A i \in DOMAIN lastRun.sent[1].entries :
            LET e == lastRun.sent[1].entries[i]
            IN  e.consecutive_days = EngineStreak(e.user_id, NYDate(now))

\* C2: on a Saturday or Sunday (New York date) each of the four jobs returns
\* before it reads the roster or the ledger and sends nothing.
C2_WeekendRunsDoNothing ==
    (lastRun.job \in Jobs /\ weekday(NYDate(now)) >= 5) =>
        /\ ~lastRun.readRoster
        /\ ~lastRun.readLedger
        /\ lastRun.sent = <<>>

C2_Witness ==
    /\ lastRun.job = "send_reminders"
    /\ lastRun.status = "weekend"
    /\ weekday(NYDate(now)) = 5
    /\ eod_reports # {}

\* C3: on a configured holiday every scheduled job ends with no output, as on
\* a weekend: no user is sent a message and no rollup goes to the channel.
C3_HolidayRunsSendNothing ==
    (lastRun.job \in Jobs /\ NYDate(now) \in HOLIDAYS) => lastRun.sent = <<>>

\* C4: a prompt, reminder or final-reminder run sends no direct message to a
\* user who has a report in today's local-day window when the job queries
\* the ledger.
C4_NoMessageToSubmitter ==
    lastRun.job \in ReminderJobs =>
        \A i \in DOMAIN lastRun.sent : lastRun.sent[i].to \notin SubmittedToday

\* C5: the rollup message lists exactly the valid users absent from the
\* submitted-today snapshot, each once with its streak, then the number of
\* missing users out of the number of expected users; it is the "all
\* submitted" message, listing nobody, exactly when nobody is missing.
C5_RollupListsExactlyTheMissing ==
    RollupSent =>
        LET msg == lastRun.sent[1]
            missing == lastRun.expected \ lastRun.submitted
        IN  /\ {msg.entries[i].user_id : i \in DOMAIN msg.entries} = missing
            /\ Len(msg.entries) = Cardinality(missing)
            /\ \A i \in DOMAIN msg.entries :
                  msg.entries[i].consecutive_days =
                      ConsecutiveMissedDays(msg.entries[i].user_id, NYDate(now))
            /\ (missing # {}) =>
                  /\ msg.kind = "missing_submissions"
                  /\ msg.missing = Cardinality(missing)
                  /\ msg.expected = Cardinality(lastRun.expected)
            /\ (missing = {}) <=> (msg.kind = "all_submitted")
            /\ (msg.kind = "all_submitted") => (msg.entries = <<>>)

C5_Witness ==
    /\ RollupSent
    /\ lastRun.sent[1].kind = "missing_submissions"
    /\ lastRun.sent[1].missing = 1
    /\ lastRun.sent[1].expected = 2

\* C6: the missing users of the rollup are in non-decreasing order of display
\* name, and no user with a report today is in the list.
C6_RollupOrderedByName ==
    RollupSent =>
        LET entries == lastRun.sent[1].entries
        IN  /\ \A i, j \in DOMAIN entries :
                  i < j => entries[i].user_name <= entries[j].user_name
            /\ \A i \in DOMAIN entries : entries[i].user_id \notin SubmittedToday

C6_Witness ==
    /\ RollupSent
    /\ Len(lastRun.sent[1].entries) = 2
    /\ lastRun.sent[1].entries[1].user_name < lastRun.sent[1].entries[2].user_name

\* C7: a rollup run on a business day that completes without error sends
\* exactly one message, to the management channel, and no direct message to
\* a user, however many users are missing.
C7_RollupSendsOneChannelMessage ==
    (/\ lastRun.job = "send_daily_non_submission_report"
     /\ lastRun.status = "done"
     /\ IsBusinessDay(NYDate(now))) =>
        /\ Len(lastRun.sent) = 1
        /\ lastRun.sent[1].to = MANAGEMENT_CHANNEL
        /\ \A i \in DOMAIN lastRun.sent : lastRun.sent[i].to \notin UserIds

C7_Witness ==
    /\ lastRun.job = "send_daily_non_submission_report"
    /\ lastRun.status = "done"
    /\ IsBusinessDay(NYDate(now))
    /\ Len(lastRun.sent) = 1
    /\ lastRun.sent[1].missing = 2
    /\ lastRun.sent[1].entries[1].user_name = lastRun.sent[1].entries[2].user_name

\* C8: the tier is a function of consecutiveMissedDays alone (0 none, 1 normal,
\* 2 warning, 3 or more escalated) and the message a reminder run on a
\* business day sends a user differs by tier.
C8_ReminderMessageDiffersByTier ==
    (lastRun.job \in {"send_reminders", "send_final_reminders"} /\ IsBusinessDay(NYDate(now))) =>
        \A i, j \in DOMAIN lastRun.sent :
            Tier(ConsecutiveMissedDays(lastRun.sent[i].to, NYDate(now)))
                # Tier(ConsecutiveMissedDays(lastRun.sent[j].to, NYDate(now)))
            => lastRun.sent[i].kind # lastRun.sent[j].kind

\* C9: a reminder run on a business day sends, for every user it reminds whose
\* streak is 3 or more, a flag to the management channel naming that user,
\* and no such flag for a user whose streak is 1 or 2.
C9_EscalatedUsersFlaggedToManagement ==
    (lastRun.job \in {"send_reminders", "send_final_reminders"} /\ IsBusinessDay(NYDate(now))) =>
        \A i \in DOMAIN lastRun.sent :
            LET u == lastRun.sent[i].to
                flagged == \E j \in DOMAIN lastRun.sent :
                              /\ lastRun.sent[j].to = MANAGEMENT_CHANNEL
                              /\ \E k \in DOMAIN lastRun.sent[j].entries :
                                    lastRun.sent[j].entries[k].user_id = u
            IN  u \in UserIds =>
                   (flagged <=> ConsecutiveMissedDays(u, NYDate(now)) >= 3)

\* C10: the streak of a missing user never counts a business day earlier
\* than the user's enrollment date.
C10_StreakStartsAtEnrollment ==
    RollupSent =>
        \A i \in DOMAIN lastRun.sent[1].entries :
            LET e == lastRun.sent[1].entries[i]
            IN  e.consecutive_days <= 1 + BusinessDaysSinceEnrollment(e.user_id, NYDate(now))

\* the rollup fetches no report of the user for the last 30 days
NoSubmissionInLookback(user_id, today) == PastSubmissions(user_id, today) = {}

\* C11: every listed user's consecutiveMissedDays lies between 1
\* and 30, and a user with no submission within the lookback is reported with
\* the cap of 30.
C11_NoSubmissionReachesCap ==
    RollupSent =>
        \A i \in DOMAIN lastRun.sent[1].entries :
            LET e == lastRun.sent[1].entries[i]
            IN  /\ e.consecutive_days \in 1..StreakCap
                /\ NoSubmissionInLookback(e.user_id, NYDate(now)) =>
                       e.consecutive_days = StreakCap

\* a run that read today's submissions without an error
ReadSubmittedToday ==
    /\ lastRun.job \in Jobs
    /\ lastRun.status = "done"
    /\ ~lastRun.ledgerError

\* C12: in every run the submitted-today set holds the author of a report
\* whose instant is the start of today's local day, does not hold a user whose
\* reports all lie before that start, and no report lies in the day windows
\* of two different dates.
C12_DayWindowIsHalfOpen ==
    LET today == NYDate(now)
    IN  /\ ReadSubmittedToday =>
              \A r \in eod_reports :
                 /\ r.timestamp = DayStartUtc(today) => r.user_id \in lastRun.submitted
                 /\ (\A x \in eod_reports :
                        x.user_id = r.user_id => x.timestamp < DayStartUtc(today))
                       => r.user_id \notin lastRun.submitted
        /\ \A r \in eod_reports :
              \A d1, d2 \in (today - 2)..(today + 2) :
                 (r \in TodayDocs(d1) /\ r \in TodayDocs(d2)) => d1 = d2

C12_Witness ==
    /\ ReadSubmittedToday
    /\ lastRun.job = "send_reminders"
    /\ \E r, x \in eod_reports :
          /\ r.timestamp = DayStartUtc(NYDate(now))
          /\ x.timestamp = DayStartUtc(NYDate(now)) - 1
          /\ r.user_id \in lastRun.submitted
          /\ x.user_id \notin lastRun.submitted

\* the step stores a further report of a user who already has one for the
\* same New York date
DuplicateSaved ==
    \E r \in eod_reports' \ eod_reports :
       \E x \in eod_reports :
          x.user_id = r.user_id /\ NYDate(x.timestamp) = NYDate(r.timestamp)

\* the message of a rollup run in which no call fails
RollupOutput == RollupRun(FALSE, {}, FALSE).sent

\* C13: storing a further report for a (user, date) pair that already has one
\* changes neither the submitted-today set, nor the recipients of a reminder,
\* nor any user's streak on this or a later day, nor the rollup message.
C13_DuplicateChangesNothing ==
    [][DuplicateSaved =>
          /\ SubmittedToday' = SubmittedToday
          /\ Recipients(SubmittedToday)' = Recipients(SubmittedToday)
          /\ \A u \in UserIds : \A d \in 0..MaxTicks :
                ConsecutiveMissedDays(u, NYDate(now) + d)'
                    = ConsecutiveMissedDays(u, NYDate(now) + d)
          /\ RollupOutput' = RollupOutput]_vars

C13_Witness ==
    /\ \E r, x \in eod_reports :
          /\ r # x
          /\ r.user_id = x.user_id
          /\ r.timestamp # x.timestamp
          /\ NYDate(r.timestamp) = NYDate(now)
          /\ NYDate(x.timestamp) = NYDate(now)
          /\ r.user_id \in lastRun.submitted
    /\ RollupSent

\* two rollup runs in a row that both sent their message and met the same
\* users_info failures
RanTwice ==
    /\ prevRun.job = "send_daily_non_submission_report"
    /\ lastRun.job = "send_daily_non_submission_report"
    /\ prevRun.status = "done"
    /\ lastRun.status = "done"
    /\ prevRun.infoFail = lastRun.infoFail

C15_FailedReadFlagsNobody ==
    (lastRun.job \in ReminderJobs /\ lastRun.ledgerError) => lastRun.sent = <<>>

\* C16: with the global firebase_client absent each of the four jobs returns
\* at its first test: it reads neither roster nor ledger and sends nothing.
C16_NoClientNoNotification ==
    (lastRun.job \in Jobs /\ ~firebase_client) =>
        /\ lastRun.status = "no_firebase"
        /\ ~lastRun.readRoster
        /\ ~lastRun.readLedger
        /\ lastRun.sent = <<>>

C16_Witness ==
    /\ lastRun.job = "send_daily_non_submission_report"
    /\ lastRun.status = "no_firebase"
    /\ ~firebase_client
    /\ IsBusinessDay(NYDate(now))

\* C17: in a prompt, reminder or final-reminder run that reached its send
\* loop, at most the one user whose send failed goes without a message:
\* every other user who has not submitted is sent one.
C17_SendFailureSparesLaterUsers ==
    (lastRun.job \in ReminderJobs /\ lastRun.status \in {"done", "error"}) =>
        Len(Recipients(lastRun.submitted)) - Len(lastRun.sent) <= 1

\* the entries of the message the run would have sent had no users_info call
\* failed
EntriesWithoutFailure == RollupRun(FALSE, {}, FALSE).sent[1].entries

\* C18: a rollup run in which the users_info lookup, the only per-user call
\* of the run, fails for exactly one user X still sends its message, does not
\* list X, and lists every other user in the same place with the same name
\* and streak as a run without the failure.
C18_LookupFailureIsContained ==
    \A X \in UserIds :
        (/\ lastRun.job = "send_daily_non_submission_report"
         /\ lastRun.status = "done"
         /\ lastRun.infoFail = {X}) =>
            /\ Len(lastRun.sent) = 1
            /\ \A i \in DOMAIN lastRun.sent[1].entries :
                  lastRun.sent[1].entries[i].user_id # X
            /\ lastRun.sent[1].entries
                  = SelectSeq(EntriesWithoutFailure, LAMBDA e : e.user_id # X)

C18_Witness ==
    /\ lastRun.job = "send_daily_non_submission_report"
    /\ lastRun.status = "done"
    /\ lastRun.infoFail = {"U1"}
    /\ \E i \in DOMAIN EntriesWithoutFailure : EntriesWithoutFailure[i].user_id = "U1"
    /\ lastRun.sent[1].entries # <<>>

\* the internal team, the bot accounts and the deactivated accounts
Excluded ==
    INTERNAL_TEAM_IDS \cup
        {Members[i].id : i \in {k \in DOMAIN Members : Members[k].is_bot \/ Members[k].deleted}}

\* C19: no run of any of the four jobs sends a message to an internal, bot
\* or deactivated account, lists one in the rollup, or counts one in the
\* rollup's expected total.
C19_ExcludedNeverNotified ==
    lastRun.job \in Jobs =>
        /\ lastRun.expected \cap Excluded = {}
        /\ \A i \in DOMAIN lastRun.sent :
              /\ lastRun.sent[i].to \notin Excluded
              /\ lastRun.sent[i].expected <= Cardinality(lastRun.expected \ Excluded)
              /\ \A j \in DOMAIN lastRun.sent[i].entries :
                    lastRun.sent[i].entries[j].user_id \notin Excluded

C19_Witness ==
    /\ RollupSent
    /\ IsBusinessDay(NYDate(now))
    /\ \E r \in eod_reports : r.user_id \in Excluded /\ r.user_id \notin lastRun.submitted
    /\ lastRun.sent[1].entries # <<>>

\* C20: every user the final reminder would message now (eligible and not
\* submitted) is listed as missing by a rollup run on the same state, and
\* every user the rollup lists is one the reminders are eligible to message.
C20_RollupRosterIsReminderRoster ==
    (RollupSent /\ lastRun.infoFail = {}) =>
        LET listed == {lastRun.sent[1].entries[i].user_id :
                          i \in DOMAIN lastRun.sent[1].entries}
            reminded == {Recipients(SubmittedToday)[i].id :
                            i \in DOMAIN Recipients(SubmittedToday)}
            eligible == {Recipients({})[i].id : i \in DOMAIN Recipients({})}
        IN  /\ reminded \subseteq listed
            /\ listed \subseteq eligible

\* C24: the date field of every stored report is the New York calendar date
\* of its timestamp.
C24_DateStringMatchesTimestamp ==
    \A r \in eod_reports : r.date = NYDate(r.timestamp)

\* the users a rollup run on date d lists as missing, given the ledger as it
\* is now and no failing call
MissingOn(d) == ValidUsers(AllUsers, {}) \ {r.user_id : r \in TodayDocs(d)}

\* C27: storing one more report never adds a user to the list of a rollup
\* run on the same or the next date and never raises the
\* consecutiveMissedDays of a user it lists.
C27_SubmissionNeverWorsens ==
    [][eod_reports' # eod_reports =>
          \A d \in NYDate(now)..(NYDate(now) + 1) :
             /\ MissingOn(d)' \subseteq MissingOn(d)
             /\ \A u \in MissingOn(d)' :
                   ConsecutiveMissedDays(u, d)' <= ConsecutiveMissedDays(u, d)]_vars

\* C25: every date the streak loop tests for a submission is a business day
\* strictly earlier than today, and the tested dates are strictly decreasing.
C25_TestedDatesAreEarlierBusinessDays ==
    /\ \A i \in DOMAIN walk.tested :
          /\ IsBusinessDay(walk.tested[i])
          /\ walk.tested[i] < walk.today
    /\ \A i, j \in DOMAIN walk.tested : i < j => walk.tested[i] > walk.tested[j]

C25_Witness ==
    /\ walk.pc = "done"
    /\ walk.today = 122
    /\ Len(walk.tested) > 15
    /\ \E i \in DOMAIN walk.tested : walk.tested[i] < 107

\* C26: the streak loop ends for every date of today and every set of
\* report dates, also when it passes weekends and holidays, and it ends with
\* the count the rollup reports.
C26_StreakLoopTerminates ==
    <>(/\ walk.pc = "done"
       /\ walk.consecutive_days =
             StreakLoop(walk.today - 1, 1, walk.user_submissions, walk.today - LookbackDays))

C26_Witness ==
    /\ walk.pc = "done"
    /\ walk.today = 110
    /\ walk.user_submissions = {}
    /\ walk.check_date < walk.today - LookbackDays

\* C30: on a business day the dashboard shows, for every user the rollup
\* would list, the consecutiveMissedDays the rollup reports.
C30_DashboardStreakEqualsRollupStreak ==
    IsBusinessDay(NYDate(now)) =>
        \A u \in MissingOn(NYDate(now)) :
            DashboardMissed(u, NYDate(now)) = ConsecutiveMissedDays(u, NYDate(now))

\* C28: the ledger never holds two reports of one user for one New York day.
C28_OneReportPerUserAndDay ==
    \A r, x \in eod_reports :
        (r.user_id = x.user_id /\ NYDate(r.timestamp) = NYDate(x.timestamp)) => r = x

\* C23: a step never leaves a user without a report for a New York date for
\* which the user had one before the step.
C23_SubmissionKeepsItsDate ==
    [][\A r \in eod_reports :
          \E x \in eod_reports' :
             x.user_id = r.user_id /\ NYDate(x.timestamp) = NYDate(r.timestamp)]_vars

\* the kinds of the messages a task has sent
SentKinds(task) == {task.sent[i].kind : i \in DOMAIN task.sent}

\* C29: a task of process_submission posts the report and confirms only after
\* its ledger write, posts before it confirms, and a task whose write failed
\* ends having sent the error message and nothing else.
C29_WriteBeforePostAndConfirm ==
    \A task \in tasks :
        /\ (SentKinds(task) \cap {"report", "success"} # {}) =>
              /\ task.saved
              /\ \E r \in eod_reports : r.id = task.report_id /\ r.user_id = task.user_id
        /\ "success" \in SentKinds(task) => "report" \in SentKinds(task)
        /\ \A i, j \in DOMAIN task.sent :
              (task.sent[i].kind = "success" /\ task.sent[j].kind = "report") => j < i
        /\ (task.pc = "done" /\ ~task.saved) =>
              task.sent = <<[to |-> task.user_id, kind |-> "error"]>>

C29_Witness ==
    \E task, other \in tasks :
        /\ task.pc = "done"
        /\ task.saved
        /\ "success" \in SentKinds(task)
        /\ other.pc = "done"
        /\ ~other.saved
        /\ SentKinds(other) = {"error"}

\* the run that takes its last step, if any
Finishing(i) == running[i].pc # "idle" /\ running'[i].pc = "idle"

\* what the job sends when it runs alone over the ledger as it is
SentAlone(job, today) ==
    IF job \in DOMAIN JobKind
    THEN SendLoop(Recipients({r.user_id : r \in TodayDocs(today)}), JobKind[job], 0)
    ELSE <<ManagementMessage(
              MissingUsersWithNames(ValidUsers(AllUsers, {}),
                                    {r.user_id : r \in TodayDocs(today)}),
              today, ValidUsers(AllUsers, {}))>>

\* C21: no step of a job run writes to the ledger or to the users collection,
\* and a run that ends with the ledger as it was when the run began, whatever
\* other run was interleaved with it, has sent what the job sends when it
\* runs alone over that ledger.
C21_InterleavedRunsSendWhatTheySendAlone ==
    [][\A i \in RunIds :
          /\ running'[i] # running[i] => (eod_reports' = eod_reports /\ users' = users)
          /\ (Finishing(i) /\ running[i].ledger = eod_reports)
                => lastRun'.sent = SentAlone(running[i].job, running[i].today)]_vars

\* a run has ended with a message while a run of another day, begun over the
\* same ledger, is still in progress
C21_Witness ==
    /\ lastRun.status = "done"
    /\ lastRun.sent # <<>>
    /\ eod_reports # {}
    /\ \E i \in RunIds : /\ running[i].pc # "idle"
                          /\ running[i].today # lastRun.today
                          /\ running[i].job # lastRun.job
                          /\ running[i].ledger = eod_reports

\* the rollup run whose message is the last thing sent
RollupEnded ==
    /\ lastRun.job = "send_daily_non_submission_report"
    /\ lastRun.status = "done"
    /\ lastRun.sent # <<>>

\* C22: the message of a rollup run that reports were stored alongside lists
\* exactly the expected users who are not in the run's one read of today's
\* submissions, as many users as the missing count says, each of them
\* expected, and its missing count is at most its expected count.
C22_RollupMessageIsConsistent ==
    RollupEnded =>
        LET message == lastRun.sent[1]
            listed == {message.entries[k].user_id : k \in DOMAIN message.entries}
        IN  /\ listed = lastRun.expected \ lastRun.submitted
            /\ Cardinality(listed) = Len(message.entries)
            /\ Len(message.entries) = message.missing
            /\ listed \subseteq lastRun.expected
            /\ message.missing <= message.expected

\* a user the message lists as missing stored today's report after the run
\* had read today's submissions
C22_Witness ==
    /\ RollupEnded
    /\ lastRun.sent[1].missing > 0
    /\ \E r \in TodayDocs(lastRun.today) :
          /\ r.user_id \notin lastRun.submitted
          /\ \E k \in DOMAIN lastRun.sent[1].entries :
                lastRun.sent[1].entries[k].user_id = r.user_id

====
